---- MODULE Spec2Model ----
(***************************************************************************)
(* Query pagination of graphql_compiler: the page-count estimate, the      *)
(* query parameterizer that splits a query in a page and a remainder, the  *)
(* orchestration in paginate_query_ast, the parameter generator, and the   *)
(* parameterizer again on a heap of objects with identities.               *)
(*                                                                         *)
(* Python values are modelled as follows.                                  *)
(*   - an AST node is a record [kind, name, directives, selection_set];    *)
(*     selection_set is None (the empty tuple) or a 1-tuple holding the    *)
(*     sequence of selections (SelectionSetNode(selections=...));          *)
(*   - a directive is [name, arguments], each argument [name, value]; the  *)
(*     string "$" + param_name is the pair <<"$", param_name>>, so that    *)
(*     get_parameter_name (which strips the first character) is a[2];      *)
(*   - a dict is a TLA+ function, a namedtuple a record, and an            *)
(*     attribute that a value lacks is a field missing from DOMAIN;        *)
(*   - a call returns a record whose status is "ok" or the name of the     *)
(*     exception it raised.                                                *)
(***************************************************************************)
EXTENDS Integers, Sequences, FiniteSets, TLC

VARIABLES
    query,                \* parameterizer: the ASTWithParameters to split
    vertex_partition,     \* parameterizer: the VertexPartitionPlan
    parameter_value,      \* the boundary value the caller binds to param_name
    split,                \* parameterizer: what generate_parameterized_queries returned
    result_size,          \* estimator: cardinality, in units of 1/Resolution
    page_size,            \* estimator and orchestrator: requested page size
    num_pages,            \* estimator: what _estimate_number_of_pages returned
    query_analysis,       \* orchestrator: the QueryPlanningAnalysis
    pagination_plan,      \* orchestrator: what get_pagination_plan answers when asked
    generated_parameters, \* orchestrator: what the parameter generator yields when asked
    paginated,            \* orchestrator: what paginate_query_ast returned
    calls,                \* orchestrator: the collaborators called, in order
    field_quantiles,      \* generator: the quantile sample of the pagination field
    boundaries,           \* generator: what the parameter generator yielded
    heap,                 \* heap: the objects allocated so far
    heap_query,           \* heap: the handle of the query to split
    heap_split,           \* heap: what the split on the heap returned
    drained_pages,        \* draining: the pages the caller has kept, in order
    to_split,             \* draining: the query the caller holds and splits next
    split_query           \* draining: the query the latest split was applied to

vars == <<query, vertex_partition, parameter_value, split, result_size, page_size,
          num_pages, query_analysis, pagination_plan, generated_parameters,
          paginated, calls, field_quantiles, boundaries, heap, heap_query,
          heap_split, drained_pages, to_split, split_query>>

(***************************************************************************)
(* Bounds of the model.                                                    *)
(***************************************************************************)
\* Field values and boundary values range over 0..MaxVal.
MaxVal == 2
\* A cardinality is a multiple of 1/Resolution (a real, not only an integer).
Resolution == 2
\* Cardinalities range over -1/Resolution .. MaxCardinality.
MaxCardinality == 6
\* Page sizes range over -1..MaxPageSize.
MaxPageSize == 4
\* A query may already carry the names __paged_param_0 .. __paged_param_(MaxTaken-1).
MaxTaken == 2
\* A caller drains a query in at most MaxSteps splits.
MaxSteps == 3
\* Partition counts range over 1..MaxSplits, besides counts around the sample size.
MaxSplits == 8
\* Quantile samples start at 0..MaxOffset and rise by 0..MaxStep per percentile.
MaxOffset == 2
MaxStep == 2

Val == 0..MaxVal

None == <<>>

(***************************************************************************)
(* query_parameterizer.py                                                  *)
(***************************************************************************)

\* The name tried at one index: "{}_{}".format(base_name, index).
FormatName(base_name, index) == base_name \o "_" \o ToString(index)

RECURSIVE NewNameFrom(_, _, _)
\* The while loop of _generate_new_name, entered with the given index.
NewNameFrom(base_name, taken_names, index) ==
    IF FormatName(base_name, index) \in taken_names
    THEN NewNameFrom(base_name, taken_names, index + 1)
    ELSE FormatName(base_name, index)

\* Mutant: the search starts at index 1, so base_0 is never produced.
GenerateNewNameFromOne(base_name, taken_names) == NewNameFrom(base_name, taken_names, 1)

_generate_new_name(base_name, taken_names) == NewNameFrom(base_name, taken_names, 0)

\* filter_directive.arguments[1].value.values must hold one argument; its
\* name without the leading "$" or "%" is the parameter (get_parameter_name).
_get_binary_filter_node_parameter(filter_directive) ==
    LET filter_arguments == filter_directive.arguments[2].value
    IN  IF Len(filter_arguments) # 1
        THEN [status |-> "AssertionError", value |-> ""]
        ELSE [status |-> "ok", value |-> filter_arguments[1][2]]

\* The value of the directive's first argument: a filter's op_name.
_get_filter_node_operation(filter_directive) == filter_directive.arguments[1].value

_make_binary_filter_directive_node(op_name, param_name) ==
    [name |-> "filter",
     arguments |-> << [name |-> "op_name", value |-> op_name],
                      [name |-> "value", value |-> << <<"$", param_name>> >>] >>]

\* FieldNode(name=NameNode(value=...), directives=[...]): no selection set.
FieldNode(field_name, directives) ==
    [kind |-> "FieldNode", name |-> field_name, directives |-> directives,
     selection_set |-> None]

RECURSIVE Concat(_)
\* list.extend over a sequence of lists, in order.
Concat(lists) == IF lists = <<>> THEN <<>> ELSE Head(lists) \o Concat(Tail(lists))

\* Mutant: no element of outcomes is taken to have raised.
FirstRaisedNever(outcomes) == 0

\* The index of the first element of outcomes that raised, 0 if none did.
FirstRaised(outcomes) ==
    LET bad == {i \in 1..Len(outcomes) : outcomes[i].status # "ok"}
    IN  IF bad = {} THEN 0 ELSE CHOOSE i \in bad : \A j \in bad : i <= j

\* Mutant: every filter directive is dropped, whichever comparator it has.
RewriteSelectionDroppingAll(selection_ast, directive_to_add) ==
    LET same(d) == d.name = directive_to_add.name
        dropped == SelectSeq(selection_ast.directives, same)
        params == [i \in 1..Len(dropped) |-> _get_binary_filter_node_parameter(dropped[i])]
        raised == FirstRaised(params)
        new_directives ==
            SelectSeq(selection_ast.directives, LAMBDA d : ~same(d)) \o <<directive_to_add>>
    IN  IF raised # 0
        THEN [status |-> params[raised].status, new_ast |-> selection_ast,
              removed_parameters |-> <<>>]
        ELSE [status |-> "ok",
              new_ast |-> [selection_ast EXCEPT !.directives = new_directives],
              removed_parameters |-> [i \in 1..Len(dropped) |-> params[i].value]]

\* Lines 95-106: the selection of the pagination field with the filters of the
\* inserted comparator removed and the new directive appended.
RewriteSelection(selection_ast, directive_to_add) ==
    LET same(d) == _get_filter_node_operation(d)
                       = _get_filter_node_operation(directive_to_add)
        dropped == SelectSeq(selection_ast.directives, same)
        params == [i \in 1..Len(dropped) |-> _get_binary_filter_node_parameter(dropped[i])]
        raised == FirstRaised(params)
        new_directives ==
            SelectSeq(selection_ast.directives, LAMBDA d : ~same(d)) \o <<directive_to_add>>
    IN  IF raised # 0
        THEN [status |-> params[raised].status, new_ast |-> selection_ast,
              removed_parameters |-> <<>>]
        ELSE [status |-> "ok",
              new_ast |-> [selection_ast EXCEPT !.directives = new_directives],
              removed_parameters |-> [i \in 1..Len(dropped) |-> params[i].value]]

\* Mutant: a selection the loop keeps loses its directives.
KeptWithoutDirectives(selection_ast) ==
    [status |-> "ok", new_ast |-> [selection_ast EXCEPT !.directives = <<>>],
     removed_parameters |-> <<>>]

\* A selection the loop appends as it is.
Kept(selection_ast) ==
    [status |-> "ok", new_ast |-> selection_ast, removed_parameters |-> <<>>]

\* Mutant: a synthesized selection is put after the existing selections.
RebuiltAppending(query_ast, outcomes, extra) ==
    LET raised == FirstRaised(outcomes)
    IN  IF raised # 0
        THEN [status |-> outcomes[raised].status, new_ast |-> query_ast,
              removed_parameters |-> <<>>]
        ELSE [status |-> "ok",
              new_ast |-> [query_ast EXCEPT !.selection_set =
                  << [i \in 1..Len(outcomes) |-> outcomes[i].new_ast] \o extra >>],
              removed_parameters |->
                  Concat([i \in 1..Len(outcomes) |-> outcomes[i].removed_parameters])]

\* Lines 133-135 after the loop over the selections.
Rebuilt(query_ast, outcomes, extra) ==
    LET raised == FirstRaised(outcomes)
    IN  IF raised # 0
        THEN [status |-> outcomes[raised].status, new_ast |-> query_ast,
              removed_parameters |-> <<>>]
        ELSE [status |-> "ok",
              new_ast |-> [query_ast EXCEPT !.selection_set =
                  << extra \o [i \in 1..Len(outcomes) |-> outcomes[i].new_ast] >>],
              removed_parameters |->
                  Concat([i \in 1..Len(outcomes) |-> outcomes[i].removed_parameters])]

RECURSIVE _add_pagination_filter(_, _, _, _)
_add_pagination_filter(query_ast, query_path, pagination_field, directive_to_add) ==
    IF query_ast.kind \notin {"FieldNode", "InlineFragmentNode", "OperationDefinitionNode"}
    THEN [status |-> "AssertionError", new_ast |-> query_ast, removed_parameters |-> <<>>]
    ELSE IF Len(query_path) = 0
    THEN IF query_ast.selection_set = None
         THEN [status |-> "AttributeError", new_ast |-> query_ast,
               removed_parameters |-> <<>>]
         ELSE LET selections == query_ast.selection_set[1]
                  found_field == \E i \in 1..Len(selections) :
                                     selections[i].name = pagination_field
                  outcomes == [i \in 1..Len(selections) |->
                      IF selections[i].name = pagination_field
                      THEN RewriteSelection(selections[i], directive_to_add)
                      ELSE Kept(selections[i])]
              IN  Rebuilt(query_ast, outcomes,
                          IF found_field THEN <<>>
                          ELSE <<FieldNode(pagination_field, <<directive_to_add>>)>>)
    ELSE IF query_ast.selection_set = None
         THEN [status |-> "AssertionError", new_ast |-> query_ast,
               removed_parameters |-> <<>>]
         ELSE LET selections == query_ast.selection_set[1]
                  found_field == \E i \in 1..Len(selections) :
                                     selections[i].name = query_path[1]
                  outcomes == [i \in 1..Len(selections) |->
                      IF selections[i].name = query_path[1]
                      THEN _add_pagination_filter(selections[i], Tail(query_path),
                                                  pagination_field, directive_to_add)
                      ELSE Kept(selections[i])]
              IN  IF FirstRaised(outcomes) = 0 /\ ~found_field
                  THEN [status |-> "AssertionError", new_ast |-> query_ast,
                        removed_parameters |-> <<>>]
                  ELSE Rebuilt(query_ast, outcomes, <<>>)

\* Set of the elements of a list.
Elements(list) == {list[i] : i \in 1..Len(list)}

\* Mutant: the parameters are copied and nothing is pruned.
WithoutNothing(parameters, removed) == parameters

\* {k: v for k, v in parameters.items() if k not in removed}
Without(parameters, removed) ==
    [k \in DOMAIN parameters \ Elements(removed) |-> parameters[k]]

\* ASTWithParameters(DocumentNode(definitions=[root]), parameters)
ASTWithParameters(root, parameters) ==
    [query_ast |-> [definitions |-> <<root>>], parameters |-> parameters]

\* What a failed call leaves: no page, no remainder, no name.
Raised(exception) ==
    [status |-> exception, next_page |-> None, remainder |-> None, param_name |-> ""]

\* Mutant: the page filter also admits the boundary itself.
PageOpInclusive == "<="

\* The comparators of the page filter (line 177) and of the remainder filter
\* (line 183).
PageOp == "<"
RemainderOp == ">="

\* Lines 176-185: the local next_page_removed_parameters (op_name "<") and
\* remainder_removed_parameters (op_name ">=") of a call that splits.
RemovedParameters(query_arg, vertex_partition_arg, op_name) ==
    _add_pagination_filter(
        query_arg.query_ast.definitions[1], vertex_partition_arg.query_path,
        vertex_partition_arg.pagination_field,
        _make_binary_filter_directive_node(
            op_name, _generate_new_name("__paged_param", DOMAIN query_arg.parameters))
    ).removed_parameters

generate_parameterized_queries(schema_info, query_arg, vertex_partition_arg) ==
    IF "query_ast" \notin DOMAIN query_arg
    THEN Raised("AttributeError")
    ELSE IF Len(query_arg.query_ast.definitions) # 1
    THEN Raised("GraphQLError")
    ELSE
    LET query_type == query_arg.query_ast.definitions[1]
        name == _generate_new_name("__paged_param", DOMAIN query_arg.parameters)
        page == _add_pagination_filter(
                    query_type, vertex_partition_arg.query_path,
                    vertex_partition_arg.pagination_field,
                    _make_binary_filter_directive_node(PageOp, name))
        rest == _add_pagination_filter(
                    query_type, vertex_partition_arg.query_path,
                    vertex_partition_arg.pagination_field,
                    _make_binary_filter_directive_node(RemainderOp, name))
    IN  IF page.status # "ok" THEN Raised(page.status)
        ELSE IF rest.status # "ok" THEN Raised(rest.status)
        ELSE [status |-> "ok",
              next_page |-> ASTWithParameters(
                  page.new_ast, Without(query_arg.parameters, page.removed_parameters)),
              remainder |-> ASTWithParameters(
                  rest.new_ast, Without(query_arg.parameters, rest.removed_parameters)),
              param_name |-> name]

(***************************************************************************)
(* query_parameterizer.py once more, on a heap of objects: every AST node, *)
(* SelectionSetNode, list and dict is an object with an identity (its      *)
(* index in the heap), copy() allocates a new object with the same         *)
(* attributes, and an attribute assignment changes the object at its       *)
(* index. 0 is None; nothing is ever freed. An operator that continues a   *)
(* function takes what the statements before it left: the heap, and the    *)
(* identities of the objects they made.                                    *)
(***************************************************************************)
Blank ==
    [class |-> "", name |-> "", directives |-> 0, selection_set |-> 0,
     selections |-> 0, items |-> <<>>]

\* A Python list of the given items (directives, or identities of selections).
ListObject(items) == [Blank EXCEPT !.class = "list", !.items = items]

\* A Python dict with the given entries.
DictObject(entries) == [Blank EXCEPT !.class = "dict", !.items = entries]

\* SelectionSetNode(selections=<the list object>).
SelectionSetObject(list_id) ==
    [Blank EXCEPT !.class = "SelectionSetNode", !.selections = list_id]

\* A FieldNode or OperationDefinitionNode with its two attributes.
NodeObject(kind, node_name, directives_id, selection_set_id) ==
    [Blank EXCEPT !.class = kind, !.name = node_name, !.directives = directives_id,
                  !.selection_set = selection_set_id]

\* The heap with a new object on it, and the identity of that object.
Allocated(h, object) == [heap |-> Append(h, object), id |-> Len(h) + 1]

\* The heap after  <object id>.<attribute> = value.
Assigned(h, id, attribute, value) ==
    [h EXCEPT ![id] = [@ EXCEPT ![attribute] = value]]

\* The identities of the selections of a node that has a selection set.
SelectionsOf(h, id) == h[h[h[id].selection_set].selections].items

RECURSIVE StoreAll(_, _)
\* A parsed node, given its SelectionSetNode (0 for none) and directive list.
StoreNode(selection_set, directives_id, node) ==
    Allocated(selection_set.heap,
              NodeObject(node.kind, node.name, directives_id, selection_set.id))

\* A parsed node, given the list of its selections and its directive list.
StoreSelectionSet(list, directives_id, node) ==
    StoreNode(Allocated(list.heap, SelectionSetObject(list.id)), directives_id, node)

\* A parsed node, given its stored selections and its directive list.
StoreSelections(children, directives_id, node) ==
    StoreSelectionSet(Allocated(children.heap, ListObject(children.ids)),
                      directives_id, node)

\* A parsed node, given its directive list.
StoreBelow(directives, node) ==
    IF node.selection_set = None
    THEN StoreNode([heap |-> directives.heap, id |-> 0], directives.id, node)
    ELSE StoreSelections(StoreAll(directives.heap, node.selection_set[1]),
                         directives.id, node)

\* The heap after the parser built the node on it, and the node's identity.
Store(h, node) == StoreBelow(Allocated(h, ListObject(node.directives)), node)

\* The identities of nodes stored one after the other: the first, then the rest.
StoredAfter(first_id, rest) == [heap |-> rest.heap, ids |-> <<first_id>> \o rest.ids]

\* The nodes stored after their first one.
StoreTail(first, nodes) == StoredAfter(first.id, StoreAll(first.heap, nodes))

\* The heap after the nodes were built on it one after the other, and their
\* identities.
StoreAll(h, nodes) ==
    IF nodes = <<>> THEN [heap |-> h, ids |-> <<>>]
    ELSE StoreTail(Store(h, Head(nodes)), Tail(nodes))

\* The handle of a query whose root is stored, with its parameters.
StoreParameters(root, parameters) ==
    [heap |-> Append(root.heap, DictObject(parameters)),
     handle |-> [query_ast |-> root.id, parameters |-> Len(root.heap) + 1]]

\* The heap holding a parsed query and its parameters, and the query's handle.
StoreQuery(ast_with_parameters) ==
    StoreParameters(Store(<<>>, ast_with_parameters.query_ast.definitions[1]),
                    ast_with_parameters.parameters)

RECURSIVE Load(_, _)
\* The AST that the node with the given identity is the root of.
Load(h, id) ==
    [kind |-> h[id].class, name |-> h[id].name,
     directives |-> h[h[id].directives].items,
     selection_set |->
         IF h[id].selection_set = 0 THEN None
         ELSE << [i \in 1..Len(SelectionsOf(h, id)) |-> Load(h, SelectionsOf(h, id)[i])] >>]

\* The query that a handle stands for.
LoadQuery(h, handle) ==
    [query_ast |-> [definitions |-> <<Load(h, handle.query_ast)>>],
     parameters |-> h[handle.parameters].items]

\* Mutant: copy() hands back the object itself.
CopyAliased(h, id) == [heap |-> h, id |-> id]

\* copy.copy: a new object with the attributes of the old one.
copy(h, id) == Allocated(h, h[id])

\* What a raise leaves of a rewrite on the heap.
RaisedOnHeap(exception, h) ==
    [status |-> exception, heap |-> h, id |-> 0, removed_parameters |-> <<>>]

\* A selection the loop appends as it is.
KeptOnHeap(h, selection_ast) ==
    [status |-> "ok", heap |-> h, id |-> selection_ast, removed_parameters |-> <<>>]

\* Line 106: new_selection_ast.directives = new_directives.
AssignNewDirectives(new_directives, new_selection_ast, removed_parameters) ==
    [status |-> "ok",
     heap |-> Assigned(new_directives.heap, new_selection_ast, "directives",
                       new_directives.id),
     id |-> new_selection_ast, removed_parameters |-> removed_parameters]

\* Lines 98-106: the loop over the directives of the selection.
RewriteDirectives(h, new_selection_ast, selection_ast, directive_to_add) ==
    LET directives == h[h[selection_ast].directives].items
        same(d) == _get_filter_node_operation(d)
                       = _get_filter_node_operation(directive_to_add)
        dropped == SelectSeq(directives, same)
        params == [i \in 1..Len(dropped) |-> _get_binary_filter_node_parameter(dropped[i])]
        raised == FirstRaised(params)
    IN  IF raised # 0 THEN RaisedOnHeap(params[raised].status, h)
        ELSE AssignNewDirectives(
                 Allocated(h, ListObject(SelectSeq(directives, LAMBDA d : ~same(d))
                                             \o <<directive_to_add>>)),
                 new_selection_ast,
                 [i \in 1..Len(dropped) |-> params[i].value])

\* Line 96, second half: new_selection_ast.directives = <the copied list>.
AssignCopiedDirectives(copied, new_selection_ast, selection_ast, directive_to_add) ==
    RewriteDirectives(Assigned(copied.heap, new_selection_ast, "directives", copied.id),
                      new_selection_ast, selection_ast, directive_to_add)

\* Line 96, first half: copy(selection_ast.directives).
CopyDirectives(new_selection_ast, selection_ast, directive_to_add) ==
    AssignCopiedDirectives(
        copy(new_selection_ast.heap, new_selection_ast.heap[selection_ast].directives),
        new_selection_ast.id, selection_ast, directive_to_add)

\* Lines 95-106 on the heap, from new_selection_ast = copy(selection_ast) on.
RewriteSelectionOnHeap(h, selection_ast, directive_to_add) ==
    CopyDirectives(copy(h, selection_ast), selection_ast, directive_to_add)

RECURSIVE LoopOnHeap(_, _, _, _, _)
\* Line 134, the assignment: new_ast.selection_set = <the SelectionSetNode>.
AssignSelectionSet(selection_set, new_ast, removed_parameters) ==
    [status |-> "ok",
     heap |-> Assigned(selection_set.heap, new_ast, "selection_set", selection_set.id),
     id |-> new_ast, removed_parameters |-> removed_parameters]

\* Line 134, the constructor: SelectionSetNode(selections=new_selections).
MakeSelectionSet(new_selections, new_ast, removed_parameters) ==
    AssignSelectionSet(Allocated(new_selections.heap,
                                 SelectionSetObject(new_selections.id)),
                       new_ast, removed_parameters)

\* Lines 133-135, given new_ast = copy(query_ast) and the selections to list.
RebuiltOnHeap(new_ast, ids, removed_parameters) ==
    MakeSelectionSet(Allocated(new_ast.heap, ListObject(ids)), new_ast.id,
                     removed_parameters)

\* Lines 109-111, given the synthesized FieldNode: it is inserted at index 0.
InsertFirst(field_node, query_ast, looped) ==
    RebuiltOnHeap(copy(field_node.heap, query_ast), <<field_node.id>> \o looped.ids,
                  looped.removed_parameters)

\* Line 110, given the list [directive_to_add]: the FieldNode is made.
MakeFieldNode(directives, query_ast, pagination_field, looped) ==
    InsertFirst(Allocated(directives.heap,
                          NodeObject("FieldNode", pagination_field, directives.id, 0)),
                query_ast, looped)

\* Lines 108-135, given what the loop over the selections left.
AfterLoopOnHeap(looped, found_field, query_ast, query_path, pagination_field, directive_to_add) ==
    IF looped.status # "ok" THEN RaisedOnHeap(looped.status, looped.heap)
    ELSE IF found_field
    THEN RebuiltOnHeap(copy(looped.heap, query_ast), looped.ids,
                       looped.removed_parameters)
    ELSE IF query_path # <<>> THEN RaisedOnHeap("AssertionError", looped.heap)
    ELSE MakeFieldNode(Allocated(looped.heap, ListObject(<<directive_to_add>>)),
                       query_ast, pagination_field, looped)

\* Whether the node has a selection of the given name.
FoundOnHeap(h, query_ast, wanted) ==
    \E i \in 1..Len(SelectionsOf(h, query_ast)) :
        h[SelectionsOf(h, query_ast)[i]].name = wanted

\* _add_pagination_filter on the heap: query_ast is the identity of a node.
_add_pagination_filter_on_heap(h, query_ast, query_path, pagination_field, directive_to_add) ==
    IF h[query_ast].class \notin {"FieldNode", "InlineFragmentNode", "OperationDefinitionNode"}
    THEN RaisedOnHeap("AssertionError", h)
    ELSE IF h[query_ast].selection_set = 0
    THEN RaisedOnHeap(IF query_path = <<>> THEN "AttributeError" ELSE "AssertionError", h)
    ELSE AfterLoopOnHeap(
             LoopOnHeap(h, SelectionsOf(h, query_ast), query_path, pagination_field,
                        directive_to_add),
             FoundOnHeap(h, query_ast,
                         IF query_path = <<>> THEN pagination_field ELSE query_path[1]),
             query_ast, query_path, pagination_field, directive_to_add)

\* One round of the loop (lines 91-107 and 120-128) for one selection.
SelectionOnHeap(h, selection_ast, query_path, pagination_field, directive_to_add) ==
    IF query_path = <<>>
    THEN IF h[selection_ast].name = pagination_field
         THEN RewriteSelectionOnHeap(h, selection_ast, directive_to_add)
         ELSE KeptOnHeap(h, selection_ast)
    ELSE IF h[selection_ast].name = query_path[1]
         THEN _add_pagination_filter_on_heap(h, selection_ast, Tail(query_path),
                                             pagination_field, directive_to_add)
         ELSE KeptOnHeap(h, selection_ast)

\* new_selections and removed_parameters after a round and the rounds after it.
JoinedOnHeap(first, rest) ==
    IF rest.status # "ok" THEN rest
    ELSE [status |-> "ok", heap |-> rest.heap, ids |-> <<first.id>> \o rest.ids,
          removed_parameters |-> first.removed_parameters \o rest.removed_parameters]

\* The rounds of the loop after the first one.
LoopTail(first, ids, query_path, pagination_field, directive_to_add) ==
    IF first.status # "ok"
    THEN [status |-> first.status, heap |-> first.heap, ids |-> <<>>,
          removed_parameters |-> <<>>]
    ELSE JoinedOnHeap(first, LoopOnHeap(first.heap, ids, query_path, pagination_field,
                                        directive_to_add))

\* The loop over the selections (lines 90-107 and 119-128), from the
\* selection at the head of ids on.
LoopOnHeap(h, ids, query_path, pagination_field, directive_to_add) ==
    IF ids = <<>>
    THEN [status |-> "ok", heap |-> h, ids |-> <<>>, removed_parameters |-> <<>>]
    ELSE LoopTail(SelectionOnHeap(h, Head(ids), query_path, pagination_field,
                                  directive_to_add),
                  Tail(ids), query_path, pagination_field, directive_to_add)

\* What a failed call leaves on the heap h.
RaisedWithHeap(exception, h) ==
    [status |-> exception, heap |-> h, next_page |-> None, remainder |-> None,
     param_name |-> ""]

\* Lines 190-193, given the two parameter dicts.
ReturnedOnHeap(page, rest, page_parameters, remainder_parameters, param_name) ==
    [status |-> "ok", heap |-> remainder_parameters.heap,
     next_page |-> [query_ast |-> page.id, parameters |-> page_parameters],
     remainder |-> [query_ast |-> rest.id, parameters |-> remainder_parameters.id],
     param_name |-> param_name]

\* Lines 190-192, given page_parameters: remainder_parameters is built.
RemainderParameters(page, rest, page_parameters, query_arg, param_name) ==
    ReturnedOnHeap(page, rest, page_parameters.id,
        Allocated(page_parameters.heap,
                  DictObject(Without(page_parameters.heap[query_arg.parameters].items,
                                     rest.removed_parameters))),
        param_name)

\* Lines 186-189, given the remainder AST: page_parameters is built.
PageParameters(page, rest, query_arg, param_name) ==
    IF rest.status # "ok" THEN RaisedWithHeap(rest.status, rest.heap)
    ELSE RemainderParameters(page, rest,
             Allocated(rest.heap,
                       DictObject(Without(rest.heap[query_arg.parameters].items,
                                          page.removed_parameters))),
             query_arg, param_name)

\* Lines 182-185, given the page AST: the remainder AST is built.
RemainderOnHeap(page, query_arg, vertex_partition_arg, param_name) ==
    IF page.status # "ok" THEN RaisedWithHeap(page.status, page.heap)
    ELSE PageParameters(page,
             _add_pagination_filter_on_heap(
                 page.heap, query_arg.query_ast, vertex_partition_arg.query_path,
                 vertex_partition_arg.pagination_field,
                 _make_binary_filter_directive_node(RemainderOp, param_name)),
             query_arg, param_name)

\* Lines 176-181, given param_name: the page AST is built.
PageOnHeap(h, query_arg, vertex_partition_arg, param_name) ==
    RemainderOnHeap(
        _add_pagination_filter_on_heap(
            h, query_arg.query_ast, vertex_partition_arg.query_path,
            vertex_partition_arg.pagination_field,
            _make_binary_filter_directive_node(PageOp, param_name)),
        query_arg, vertex_partition_arg, param_name)

\* generate_parameterized_queries on the heap: query_arg is the handle
\* [query_ast, parameters] of the query.
generate_parameterized_queries_on_heap(h, query_arg, vertex_partition_arg) ==
    PageOnHeap(h, query_arg, vertex_partition_arg,
               _generate_new_name("__paged_param", DOMAIN h[query_arg.parameters].items))

(***************************************************************************)
(* query_pagination/__init__.py                                            *)
(***************************************************************************)

\* Mutant: the cardinality is checked before the page size.
EstimateCardinalityFirst(query_arg, result_size_arg, page_size_arg) ==
    IF result_size_arg < 0 THEN [status |-> "AssertionError", value |-> 0]
    ELSE IF page_size_arg < 1 THEN [status |-> "ValueError", value |-> 0]
    ELSE [status |-> "ok", value |-> 1]

\* result_size_arg is the cardinality times Resolution, so that
\* (result_size + page_size - 1) // page_size is the floor of
\* (result_size_arg + Resolution * (page_size - 1)) / (Resolution * page_size).
_estimate_number_of_pages(query_arg, result_size_arg, page_size_arg) ==
    IF page_size_arg < 1 THEN [status |-> "ValueError", value |-> 0]
    ELSE IF result_size_arg < 0 THEN [status |-> "AssertionError", value |-> 0]
    ELSE LET floored == (result_size_arg + Resolution * (page_size_arg - 1))
                            \div (Resolution * page_size_arg)
         IN  [status |-> "ok", value |-> IF floored = 0 THEN 1 ELSE floored]

\* Mutant: the wrapper is built with a page size of 1, not the requested one.
PageAndRemainderSizeOne(whole_query, page_size_arg, one_page, remainder_queries) ==
    [whole_query |-> whole_query, page_size |-> 1,
     one_page |-> one_page, remainder |-> remainder_queries]

\* PageAndRemainder[ASTWithParameters](whole_query, page_size, one_page, remainder)
PageAndRemainder(whole_query, page_size_arg, one_page, remainder_queries) ==
    [whole_query |-> whole_query, page_size |-> page_size_arg,
     one_page |-> one_page, remainder |-> remainder_queries]

\* What paginate_query_ast leaves when it raises: no PageAndRemainder.
PaginateRaised(exception, called) ==
    [status |-> exception, page_and_remainder |-> None, advisories |-> <<>>,
     calls |-> called]

\* The normal return of paginate_query_ast.
PaginateReturned(query_analysis_arg, page_size_arg, page_query, remainder_queries, advisories, called) ==
    [status |-> "ok",
     page_and_remainder |-> PageAndRemainder(query_analysis_arg.ast_with_parameters,
                                             page_size_arg, page_query, remainder_queries),
     advisories |-> advisories, calls |-> called]

\* Lines 105-108: the parameterizer is called with (query_analysis,
\* plan_vertex_partition, first_param) and its result is unpacked in two names;
\* a result of three values does not unpack ("too many values to unpack").
SplitStep(query_analysis_arg, page_size_arg, plan_vertex_partition, first_param, advisories, called) ==
    LET result == generate_parameterized_queries(
                      query_analysis_arg, plan_vertex_partition, first_param)
        now == Append(called, "generate_parameterized_queries")
    IN  IF result.status # "ok" THEN PaginateRaised(result.status, now)
        ELSE PaginateRaised("ValueError", now)

\* Mutant: the advisories of the selector are dropped when no split is made.
PlanStepNoAdvisories(query_analysis_arg, page_size_arg, plan_answer, generator_answer, called) ==
    LET plan == plan_answer[1]
        now == Append(called, "get_pagination_plan")
    IN  IF Len(plan.vertex_partitions) = 0
        THEN PaginateReturned(query_analysis_arg, page_size_arg,
                              query_analysis_arg.ast_with_parameters, <<>>, <<>>, now)
        ELSE IF Len(plan.vertex_partitions) = 1
        THEN IF generator_answer = <<>>
             THEN PaginateReturned(query_analysis_arg, page_size_arg,
                      query_analysis_arg.ast_with_parameters, <<>>, <<>>,
                      Append(now, "generate_parameters_for_vertex_partition"))
             ELSE SplitStep(query_analysis_arg, page_size_arg,
                      plan.vertex_partitions[1], generator_answer[1], plan_answer[2],
                      Append(now, "generate_parameters_for_vertex_partition"))
        ELSE PaginateRaised("NotImplementedError", now)

\* Mutant: a plan of several vertex partitions is split on its first one.
PlanStepFirstOnly(query_analysis_arg, page_size_arg, plan_answer, generator_answer, called) ==
    LET plan == plan_answer[1]
        advisories == plan_answer[2]
        now == Append(called, "get_pagination_plan")
    IN  IF Len(plan.vertex_partitions) = 0
        THEN PaginateReturned(query_analysis_arg, page_size_arg,
                              query_analysis_arg.ast_with_parameters, <<>>,
                              advisories, now)
        ELSE IF generator_answer = <<>>
             THEN PaginateReturned(query_analysis_arg, page_size_arg,
                      query_analysis_arg.ast_with_parameters, <<>>, advisories,
                      Append(now, "generate_parameters_for_vertex_partition"))
             ELSE SplitStep(query_analysis_arg, page_size_arg,
                      plan.vertex_partitions[1], generator_answer[1], advisories,
                      Append(now, "generate_parameters_for_vertex_partition"))

\* Lines 90-113: the branch taken when more than one page is estimated.
\* plan_answer is what get_pagination_plan returns, generator_answer what the
\* parameter generator yields.
PlanStep(query_analysis_arg, page_size_arg, plan_answer, generator_answer, called) ==
    LET plan == plan_answer[1]
        advisories == plan_answer[2]
        now == Append(called, "get_pagination_plan")
    IN  IF Len(plan.vertex_partitions) = 0
        THEN PaginateReturned(query_analysis_arg, page_size_arg,
                              query_analysis_arg.ast_with_parameters, <<>>,
                              advisories, now)
        ELSE IF Len(plan.vertex_partitions) = 1
        THEN IF generator_answer = <<>>
             THEN PaginateReturned(query_analysis_arg, page_size_arg,
                      query_analysis_arg.ast_with_parameters, <<>>, advisories,
                      Append(now, "generate_parameters_for_vertex_partition"))
             ELSE SplitStep(query_analysis_arg, page_size_arg,
                      plan.vertex_partitions[1], generator_answer[1], advisories,
                      Append(now, "generate_parameters_for_vertex_partition"))
        ELSE PaginateRaised("NotImplementedError", now)

\* Mutant: the page size is not validated by paginate_query_ast itself.
PaginateUnvalidated(query_analysis_arg, page_size_arg, plan_answer, generator_answer) ==
    LET estimate == _estimate_number_of_pages(
                        query_analysis_arg.query_string_with_parameters,
                        query_analysis_arg.cardinality_estimate, page_size_arg)
    IN  PaginateRaised(estimate.status, <<"_estimate_number_of_pages">>)

\* Mutant: the plan is asked for as soon as one page is estimated.
PaginateFromOnePage(query_analysis_arg, page_size_arg, plan_answer, generator_answer) ==
    IF page_size_arg < 1 THEN PaginateRaised("ValueError", <<>>)
    ELSE LET estimate == _estimate_number_of_pages(
                             query_analysis_arg.query_string_with_parameters,
                             query_analysis_arg.cardinality_estimate, page_size_arg)
         IN  IF estimate.status # "ok"
             THEN PaginateRaised(estimate.status, <<"_estimate_number_of_pages">>)
             ELSE PlanStep(query_analysis_arg, page_size_arg, plan_answer,
                           generator_answer, <<"_estimate_number_of_pages">>)

paginate_query_ast(query_analysis_arg, page_size_arg, plan_answer, generator_answer) ==
    IF page_size_arg < 1 THEN PaginateRaised("ValueError", <<>>)
    ELSE LET estimate == _estimate_number_of_pages(
                             query_analysis_arg.query_string_with_parameters,
                             query_analysis_arg.cardinality_estimate, page_size_arg)
             called == <<"_estimate_number_of_pages">>
         IN  IF estimate.status # "ok" THEN PaginateRaised(estimate.status, called)
             ELSE IF estimate.value > 1
             THEN PlanStep(query_analysis_arg, page_size_arg, plan_answer,
                           generator_answer, called)
             ELSE PaginateReturned(query_analysis_arg, page_size_arg,
                                   query_analysis_arg.ast_with_parameters, <<>>, <<>>,
                                   called)

(***************************************************************************)
(* The result set of a query.  A row gives a value to every property of    *)
(* the vertices a query can traverse; a query matches the rows that        *)
(* satisfy all its filters, their parameters read from env.  A filter      *)
(* whose parameter env does not bind matches nothing.                      *)
(***************************************************************************)
Locations ==
    { << <<"Animal">>, "uuid" >>, << <<"Animal">>, "name" >>,
      << <<"Animal", "out_Animal_ParentOf">>, "uuid" >> }

AllRows == [Locations -> Val]

\* Whether value satisfies one directive of a property selection.
Satisfies(directive, env, value) ==
    IF directive.name # "filter" THEN TRUE
    ELSE LET op == directive.arguments[1].value
             args == directive.arguments[2].value
         IN  /\ Len(args) = 1
             /\ args[1][2] \in DOMAIN env
             /\ CASE op = "<" -> value < env[args[1][2]]
                  [] op = "<=" -> value <= env[args[1][2]]
                  [] op = ">=" -> value >= env[args[1][2]]
                  [] op = "=" -> value = env[args[1][2]]
                  [] OTHER -> FALSE

RECURSIVE Matches(_, _, _, _)
\* Whether row satisfies every filter below the node reached by path.
Matches(node, path, env, row) ==
    \A i \in 1..Len(node.selection_set[1]) :
        LET selection == node.selection_set[1][i]
        IN  IF selection.selection_set = None
            THEN /\ <<path, selection.name>> \in Locations
                 /\ \A k \in 1..Len(selection.directives) :
                        Satisfies(selection.directives[k], env, row[<<path, selection.name>>])
            ELSE Matches(selection, Append(path, selection.name), env, row)

\* The rows an ASTWithParameters matches when run with the parameters env.
Rows(ast_with_parameters, env) ==
    {row \in AllRows : Matches(ast_with_parameters.query_ast.definitions[1], <<>>, env, row)}

\* The parameters of a produced query once the caller has bound the boundary
\* parameter that generate_parameterized_queries names in its third result.
Bound(parameters, name, value) ==
    [k \in DOMAIN parameters \cup {name} |-> IF k = name THEN value ELSE parameters[k]]

RECURSIVE ReferencedBy(_)
\* The parameter names the filters below a node refer to.
ReferencedBy(node) ==
    UNION ({ {d.arguments[2].value[j][2] : j \in 1..Len(d.arguments[2].value)} :
               d \in {node.directives[k] : k \in {k \in 1..Len(node.directives) :
                                                    node.directives[k].name = "filter"}} }
           \cup (IF node.selection_set = None THEN {}
                 ELSE {ReferencedBy(node.selection_set[1][i]) :
                         i \in 1..Len(node.selection_set[1])}))

\* The parameter names an ASTWithParameters refers to.
Referenced(ast_with_parameters) ==
    ReferencedBy(ast_with_parameters.query_ast.definitions[1])

RECURSIVE PathReaches(_, _)
\* Whether path names, level by level, selections that exist below node and
\* ends at a node that has a selection set.
PathReaches(node, path) ==
    /\ node.selection_set # None
    /\ \/ path = <<>>
       \/ LET selections == node.selection_set[1]
              hits == {i \in 1..Len(selections) : selections[i].name = path[1]}
          IN  hits # {} /\ \A i \in hits : PathReaches(selections[i], Tail(path))

\* A partition the planner may hand over for the query: its path leads from
\* the operation to a vertex of the query, and its field is a property of
\* that vertex.
ValidPartition(ast_with_parameters, partition) ==
    /\ partition.query_path # <<>>
    /\ PathReaches(ast_with_parameters.query_ast.definitions[1], partition.query_path)
    /\ <<partition.query_path, partition.pagination_field>> \in Locations

(***************************************************************************)
(* The inputs the model draws.                                             *)
(***************************************************************************)
Output(out_name) ==
    [name |-> "output", arguments |-> << [name |-> "out_name", value |-> out_name] >>]

Filter(op_name, param_name) == _make_binary_filter_directive_node(op_name, param_name)

Vertex(field_name, selections) ==
    [kind |-> "FieldNode", name |-> field_name, directives |-> <<>>,
     selection_set |-> <<selections>>]

Operation(selections) ==
    [kind |-> "OperationDefinitionNode", name |-> "", directives |-> <<>>,
     selection_set |-> <<selections>>]

\* The directive lists of a selection of uuid on Animal.
UuidDirectives ==
    { <<Output("animal_uuid")>>,
      <<Filter("<", "hi")>>,
      <<Filter(">=", "lo")>>,
      <<Filter(">=", "lo"), Filter("<", "hi")>>,
      <<Output("animal_uuid"), Filter("<", "hi"), Filter("<", "lo")>>,
      <<Filter("<", "hi"), Filter(">=", "hi")>> }

\* Animal selects uuid once or not at all.
UuidSelections == {<<>>} \cup { <<FieldNode("uuid", d)>> : d \in UuidDirectives }

\* Animal always selects name, with or without a filter sharing the parameter hi.
NameSelections ==
    { <<FieldNode("name", <<Output("animal_name")>>)>>,
      <<FieldNode("name", <<Output("animal_name"), Filter("=", "hi")>>)>> }

\* Animal has a child vertex or none.
ChildSelections ==
    { <<>>,
      <<Vertex("out_Animal_ParentOf", <<FieldNode("uuid", <<Filter("<", "lo")>>)>>)>> }

QueryAsts ==
    { Operation(<<Vertex("Animal", n \o u \o c)>>) :
        n \in NameSelections, u \in UuidSelections, c \in ChildSelections }

\* Parameter names a query may carry besides those its filters refer to.
TakenNames == SUBSET { FormatName("__paged_param", i) : i \in 0..(MaxTaken - 1) }

\* The parameter mappings a query with the given root may come with.
ParametersFor(root) ==
    { [k \in ReferencedBy(root) \cup taken |-> IF k \in taken THEN 0 ELSE m[k]] :
        m \in [ReferencedBy(root) -> Val], taken \in TakenNames }

Queries ==
    UNION { { ASTWithParameters(root, parameters) : parameters \in ParametersFor(root) } :
              root \in QueryAsts }

QueryPaths ==
    { <<>>, <<"Animal">>, <<"Animal", "out_Animal_ParentOf">>,
      <<"Animal", "out_Animal_LivesIn">>, <<"Species">>,
      <<"Animal", "name", "out_Animal_ParentOf">> }

VertexPartitionPlan(query_path, pagination_field, number_of_splits) ==
    [query_path |-> query_path, pagination_field |-> pagination_field,
     number_of_splits |-> number_of_splits]

VertexPartitions ==
    { VertexPartitionPlan(path, field, 2) : path \in QueryPaths, field \in {"uuid", "name"} }

\* The queries the orchestrator is run on.
AnalysedQueries ==
    { ASTWithParameters(Operation(<<Vertex("Animal", n \o u)>>), [k \in {"hi"} |-> 1]) :
        n \in NameSelections, u \in { <<>>, <<FieldNode("uuid", <<Filter("<", "hi")>>)>> } }

Cardinalities == (0 - 1)..(MaxCardinality * Resolution)

PageSizes == (0 - 1)..MaxPageSize

QueryPlanningAnalysis(ast_with_parameters, cardinality_estimate) ==
    [schema_info |-> "schema_info", ast_with_parameters |-> ast_with_parameters,
     query_string_with_parameters |-> "query_string_with_parameters",
     cardinality_estimate |-> cardinality_estimate]

\* The answers of get_pagination_plan: a plan of zero, one or two vertex
\* partitions, and advisories.
PlanAnswers ==
    { << [vertex_partitions |-> partitions], advisories >> :
        partitions \in { <<>>,
                         <<VertexPartitionPlan(<<"Animal">>, "uuid", 2)>>,
                         <<VertexPartitionPlan(<<"Animal">>, "uuid", 2),
                           VertexPartitionPlan(<<"Animal">>, "name", 2)>> },
        advisories \in { <<>>, <<"advisory_a">>, <<"advisory_a", "advisory_b">> } }

\* The boundary values the parameter generator may yield.
GeneratorAnswers == { <<>>, <<1>>, <<1, 2>> }

(***************************************************************************)
(* The state machines.                                                     *)
(***************************************************************************)
(***************************************************************************)
(* The parameter generator for a quantile-backed field, as the             *)
(* specification describes it (its code, parameter_generator.py, is not    *)
(* among the sources).                                                     *)
(***************************************************************************)
\* The number of entries of a quantile sample: percentiles 0 to 100.
SampleSize == 101

\* The index, counted from 0, of the boundary of partition k of n.
BoundaryIndex(k, n) == ((SampleSize - 1) * k) \div n + 1

\* Mutant: the boundary is the sample at the exact split point.
GenerateAtSplitPoint(quantiles, partition) ==
    [status |-> "ok",
     values |-> [k \in 1..(partition.number_of_splits - 1) |->
                    quantiles[((SampleSize - 1) * k) \div partition.number_of_splits + 1]]]

\* The boundaries generated for a vertex partition from the sample of its
\* field; quantiles[i + 1] is the value at percentile i.
generate_parameters_for_vertex_partition(quantiles, partition) ==
    [status |-> "ok",
     values |-> [k \in 1..(partition.number_of_splits - 1) |->
                    quantiles[BoundaryIndex(k, partition.number_of_splits) + 1]]]

\* Sorted samples of SampleSize entries: constant, or rising by a fixed step.
QuantileSamples ==
    { [i \in 1..SampleSize |-> offset + step * (i - 1)] :
        offset \in 0..MaxOffset, step \in 0..MaxStep }

\* Partition counts: the small ones and those around the sample size.
PartitionCounts ==
    (1..MaxSplits) \cup ((SampleSize - 2)..(SampleSize + 1)) \cup {2 * SampleSize}

NotGenerated == [status |-> "none", values |-> <<>>]

IdleGenerator ==
    /\ field_quantiles = <<>>
    /\ boundaries = NotGenerated

NotCalled == [status |-> "none", next_page |-> None, remainder |-> None, param_name |-> ""]

NotEstimated == [status |-> "none", value |-> 0]

NotPaginated ==
    [status |-> "none", page_and_remainder |-> None, advisories |-> <<>>, calls |-> <<>>]

IdleHeap ==
    /\ heap = <<>>
    /\ heap_query = [query_ast |-> 0, parameters |-> 0]
    /\ heap_split = NotCalled

IdleDrain ==
    /\ drained_pages = <<>>
    /\ to_split = ASTWithParameters(Operation(<<>>), <<>>)
    /\ split_query = ASTWithParameters(Operation(<<>>), <<>>)

IdleParameterizer ==
    /\ query = ASTWithParameters(Operation(<<>>), <<>>)
    /\ vertex_partition = VertexPartitionPlan(<<>>, "", 0)
    /\ parameter_value = 0
    /\ split = NotCalled

IdleEstimator ==
    /\ result_size = 0
    /\ num_pages = NotEstimated

IdleOrchestrator ==
    /\ query_analysis = QueryPlanningAnalysis(ASTWithParameters(Operation(<<>>), <<>>), 0)
    /\ pagination_plan = << [vertex_partitions |-> <<>>], <<>> >>
    /\ generated_parameters = <<>>
    /\ paginated = NotPaginated
    /\ calls = <<>>

InitParameterizer ==
    /\ query \in Queries
    /\ vertex_partition \in VertexPartitions
    /\ parameter_value \in Val
    /\ split = NotCalled
    /\ page_size = 1
    /\ IdleEstimator
    /\ IdleOrchestrator
    /\ IdleGenerator
    /\ IdleHeap
    /\ IdleDrain

\* generate_parameterized_queries(schema_info, query, vertex_partition)
Split ==
    /\ split.status = "none"
    /\ split' = generate_parameterized_queries("schema_info", query, vertex_partition)
    /\ UNCHANGED <<query, vertex_partition, parameter_value, result_size, page_size,
                   num_pages, query_analysis, pagination_plan, generated_parameters,
                   paginated, calls, field_quantiles, boundaries, heap, heap_query,
          heap_split, drained_pages, to_split, split_query>>

NextParameterizer == Split

SpecParameterizer == InitParameterizer /\ [][NextParameterizer]_vars

InitEstimator ==
    /\ result_size \in Cardinalities
    /\ page_size \in PageSizes
    /\ num_pages = NotEstimated
    /\ IdleParameterizer
    /\ IdleOrchestrator
    /\ IdleGenerator
    /\ IdleHeap
    /\ IdleDrain

\* _estimate_number_of_pages(query, result_size, page_size)
Estimate ==
    /\ num_pages.status = "none"
    /\ num_pages' = _estimate_number_of_pages("query", result_size, page_size)
    /\ UNCHANGED <<query, vertex_partition, parameter_value, split, result_size,
                   page_size, query_analysis, pagination_plan, generated_parameters,
                   paginated, calls, field_quantiles, boundaries, heap, heap_query,
          heap_split, drained_pages, to_split, split_query>>

NextEstimator == Estimate

SpecEstimator == InitEstimator /\ [][NextEstimator]_vars

InitOrchestrator ==
    /\ query_analysis \in { QueryPlanningAnalysis(q, c) :
                              q \in AnalysedQueries, c \in Cardinalities }
    /\ page_size \in PageSizes
    /\ pagination_plan \in PlanAnswers
    /\ generated_parameters \in GeneratorAnswers
    /\ paginated = NotPaginated
    /\ calls = <<>>
    /\ IdleParameterizer
    /\ IdleEstimator
    /\ IdleGenerator
    /\ IdleHeap
    /\ IdleDrain

\* paginate_query_ast(query_analysis, page_size)
Paginate ==
    /\ paginated.status = "none"
    /\ paginated' = paginate_query_ast(query_analysis, page_size, pagination_plan,
                                       generated_parameters)
    /\ calls' = paginated'.calls
    /\ UNCHANGED <<query, vertex_partition, parameter_value, split, result_size,
                   page_size, num_pages, query_analysis, pagination_plan,
                   generated_parameters, field_quantiles, boundaries,
                   heap, heap_query, heap_split, drained_pages, to_split,
                   split_query>>

NextOrchestrator == Paginate

SpecOrchestrator == InitOrchestrator /\ [][NextOrchestrator]_vars

InitGenerator ==
    /\ field_quantiles \in QuantileSamples
    /\ vertex_partition \in { VertexPartitionPlan(<<"Species">>, "limbs", n) :
                               n \in PartitionCounts }
    /\ boundaries = NotGenerated
    /\ query = ASTWithParameters(Operation(<<>>), <<>>)
    /\ parameter_value = 0
    /\ split = NotCalled
    /\ page_size = 1
    /\ IdleEstimator
    /\ IdleOrchestrator
    /\ IdleHeap
    /\ IdleDrain

\* list(generate_parameters_for_vertex_partition(...)) for the sample and the
\* partition count drawn.
Generate ==
    /\ boundaries.status = "none"
    /\ boundaries' = generate_parameters_for_vertex_partition(field_quantiles,
                                                              vertex_partition)
    /\ UNCHANGED <<query, vertex_partition, parameter_value, split, result_size,
                   page_size, num_pages, query_analysis, pagination_plan,
                   generated_parameters, paginated, calls, field_quantiles,
                   heap, heap_query, heap_split, drained_pages, to_split,
                   split_query>>

NextGenerator == Generate

SpecGenerator == InitGenerator /\ [][NextGenerator]_vars

\* The queries split on the heap: every AST and every set of taken names,
\* with all parameter values 0 (the rewrite does not read the values).
HeapQueries == { q \in Queries : \A k \in DOMAIN q.parameters : q.parameters[k] = 0 }

InitHeap ==
    /\ query \in HeapQueries
    /\ vertex_partition \in VertexPartitions
    /\ heap = StoreQuery(query).heap
    /\ heap_query = StoreQuery(query).handle
    /\ heap_split = NotCalled
    /\ parameter_value = 0
    /\ split = NotCalled
    /\ page_size = 1
    /\ IdleEstimator
    /\ IdleOrchestrator
    /\ IdleGenerator
    /\ IdleDrain

\* generate_parameterized_queries(schema_info, query, vertex_partition) on
\* the heap holding the query.
SplitOnHeap ==
    /\ heap_split.status = "none"
    /\ LET result == generate_parameterized_queries_on_heap(heap, heap_query, vertex_partition)
       IN  /\ heap' = result.heap
           /\ heap_split' = [status |-> result.status, next_page |-> result.next_page,
                             remainder |-> result.remainder,
                             param_name |-> result.param_name]
    /\ UNCHANGED <<query, vertex_partition, parameter_value, split, result_size,
                   page_size, num_pages, query_analysis, pagination_plan,
                   generated_parameters, paginated, calls, field_quantiles,
                   boundaries, heap_query, drained_pages, to_split, split_query>>

NextHeap == SplitOnHeap

SpecHeap == InitHeap /\ [][NextHeap]_vars

(***************************************************************************)
(* Draining: a caller splits a query, keeps the page, and splits the       *)
(* remainder again with the same vertex partition.                         *)
(***************************************************************************)
\* A produced query with the boundary parameter bound by the caller.
WithBoundary(ast_with_parameters, param_name, value) ==
    [ast_with_parameters EXCEPT !.parameters = Bound(@, param_name, value)]

\* The queries drained: every AST and every set of taken names, with all
\* parameter values 1.
DrainQueries == { q \in Queries : \A k \in DOMAIN q.parameters : q.parameters[k] = 1 }

InitDrain ==
    /\ query \in DrainQueries
    /\ vertex_partition \in VertexPartitions
    /\ to_split = query
    /\ drained_pages = <<>>
    /\ split_query = ASTWithParameters(Operation(<<>>), <<>>)
    /\ split = NotCalled
    /\ parameter_value = 0
    /\ page_size = 1
    /\ IdleEstimator
    /\ IdleOrchestrator
    /\ IdleGenerator
    /\ IdleHeap

\* The caller splits the query it holds, binds a boundary value to the
\* returned parameter name in the page and in the remainder, keeps the page
\* and holds the remainder.
Drain ==
    /\ split.status \in {"none", "ok"}
    /\ Len(drained_pages) < MaxSteps
    /\ \E value \in Val :
         /\ parameter_value' = value
         /\ split' = generate_parameterized_queries("schema_info", to_split, vertex_partition)
         /\ split_query' = to_split
         /\ IF split'.status = "ok"
            THEN /\ drained_pages' = Append(drained_pages,
                         WithBoundary(split'.next_page, split'.param_name, value))
                 /\ to_split' = WithBoundary(split'.remainder, split'.param_name, value)
            ELSE UNCHANGED <<drained_pages, to_split>>
    /\ UNCHANGED <<query, vertex_partition, result_size, page_size, num_pages,
                   query_analysis, pagination_plan, generated_parameters, paginated,
                   calls, field_quantiles, boundaries, heap, heap_query, heap_split>>

\* The caller splits the query it holds and goes on with the page and the
\* remainder as generate_parameterized_queries returned them.
Resplit ==
    /\ split.status \in {"none", "ok"}
    /\ Len(drained_pages) < MaxSteps
    /\ split' = generate_parameterized_queries("schema_info", to_split, vertex_partition)
    /\ split_query' = to_split
    /\ IF split'.status = "ok"
       THEN /\ drained_pages' = Append(drained_pages, split'.next_page)
            /\ to_split' = split'.remainder
       ELSE UNCHANGED <<drained_pages, to_split>>
    /\ UNCHANGED <<query, vertex_partition, parameter_value, result_size, page_size,
                   num_pages, query_analysis, pagination_plan, generated_parameters,
                   paginated, calls, field_quantiles, boundaries, heap, heap_query,
                   heap_split>>

NextDrain == Drain \/ Resplit

SpecDrain == InitDrain /\ [][NextDrain]_vars

(***************************************************************************)
(* Properties of the query parameterizer (SpecParameterizer).              *)
(***************************************************************************)
RECURSIVE VertexAt(_, _)
\* The node reached from node along a path that PathReaches accepts.
VertexAt(node, path) ==
    IF path = <<>> THEN node
    ELSE LET selections == node.selection_set[1]
             hits == {i \in 1..Len(selections) : selections[i].name = path[1]}
         IN  VertexAt(selections[CHOOSE i \in hits : \A j \in hits : i <= j], Tail(path))

\* The selections of the pagination field at the target vertex of a query.
FieldSelections(ast_with_parameters, partition) ==
    SelectSeq(VertexAt(ast_with_parameters.query_ast.definitions[1],
                       partition.query_path).selection_set[1],
              LAMBDA s : s.name = partition.pagination_field)

\* Whether a directive is the filter  op_name $param_name.
IsFilter(directive, op_name, param_name) ==
    /\ directive.name = "filter"
    /\ directive.arguments[1].value = op_name
    /\ directive.arguments[2].value = << <<"$", param_name>> >>

\* The parameters of the filters with comparator op_name that the original
\* query has on the pagination field at the target vertex.
FilteredWith(op_name) ==
    LET selections == FieldSelections(query, vertex_partition)
    IN  UNION { { selections[i].directives[k].arguments[2].value[1][2] :
                    k \in { k \in 1..Len(selections[i].directives) :
                              /\ selections[i].directives[k].name = "filter"
                              /\ selections[i].directives[k].arguments[1].value = op_name } } :
                i \in 1..Len(selections) }

\* The rows of the page and of the remainder, the boundary bound by the caller.
PageRows ==
    Rows(split.next_page, Bound(split.next_page.parameters, split.param_name, parameter_value))

RemainderRows ==
    Rows(split.remainder, Bound(split.remainder.parameters, split.param_name, parameter_value))

\* C1: for every query, every valid partition and every boundary value, the
\* rows of the page united with the rows of the remainder are the rows of the
\* original query.
C1_UnionIsOriginal ==
    (split.status = "ok" /\ ValidPartition(query, vertex_partition))
        => PageRows \cup RemainderRows = Rows(query, query.parameters)

\* C2: no row is matched by both the page and the remainder of one split; the
\* page's selection of the pagination field ends with a "<" filter and the
\* remainder's with a ">=" filter, both on the one generated parameter name.
C2_PageAndRemainderDisjoint ==
    split.status = "ok" =>
        LET page == FieldSelections(split.next_page, vertex_partition)
            rest == FieldSelections(split.remainder, vertex_partition)
        IN  /\ PageRows \cap RemainderRows = {}
            /\ Len(page) >= 1 /\ Len(rest) = Len(page)
            /\ \A i \in 1..Len(page) :
                 /\ IsFilter(page[i].directives[Len(page[i].directives)], "<",
                             split.param_name)
                 /\ IsFilter(rest[i].directives[Len(rest[i].directives)], ">=",
                             split.param_name)

\* C2 happens: a query with earlier filters on the pagination field is split
\* in a page and a remainder that both match rows.
C2_Witness ==
    /\ split.status = "ok"
    /\ ValidPartition(query, vertex_partition)
    /\ FilteredWith("<") # {} /\ FilteredWith(">=") # {}
    /\ PageRows # {} /\ RemainderRows # {}

\* C3: after a split both parameter mappings contain the generated boundary
\* parameter name, mapped to the boundary value given to the split.
C3_BoundaryParameterBound ==
    (split.status = "ok" /\ ValidPartition(query, vertex_partition)) =>
        /\ split.param_name \in DOMAIN split.next_page.parameters
        /\ split.next_page.parameters[split.param_name] = parameter_value
        /\ split.param_name \in DOMAIN split.remainder.parameters
        /\ split.remainder.parameters[split.param_name] = parameter_value

\* C4: in each query a split produces, every parameter name that a filter
\* remaining in its AST refers to is a key of its parameter mapping.
C4_ReferencedParametersBound ==
    (split.status = "ok" /\ ValidPartition(query, vertex_partition)) =>
        /\ Referenced(split.next_page) \subseteq DOMAIN split.next_page.parameters
        /\ Referenced(split.remainder) \subseteq DOMAIN split.remainder.parameters

\* The part of C4 about the names the original mapping held: a parameter that
\* a removed filter and a remaining filter both refer to is not dropped.
C4_OriginalNamesKept ==
    (split.status = "ok" /\ ValidPartition(query, vertex_partition)) =>
        /\ Referenced(split.next_page) \cap DOMAIN query.parameters
               \subseteq DOMAIN split.next_page.parameters
        /\ Referenced(split.remainder) \cap DOMAIN query.parameters
               \subseteq DOMAIN split.remainder.parameters

\* C5: the page mapping holds no name referred to only by a "<" filter removed
\* from the pagination field, the remainder mapping none referred to only by a
\* removed ">=" filter; the prunings are independent: a parameter missing from
\* one mapping is in the other unless the other's own pruning removed it.
C5_IndependentPruning ==
    split.status = "ok" =>
        /\ (FilteredWith("<") \ Referenced(split.next_page))
               \cap DOMAIN split.next_page.parameters = {}
        /\ (FilteredWith(">=") \ Referenced(split.remainder))
               \cap DOMAIN split.remainder.parameters = {}
        /\ \A k \in DOMAIN query.parameters :
             /\ (k \notin DOMAIN split.next_page.parameters /\ k \notin FilteredWith(">="))
                    => k \in DOMAIN split.remainder.parameters
             /\ (k \notin DOMAIN split.remainder.parameters /\ k \notin FilteredWith("<"))
                    => k \in DOMAIN split.next_page.parameters

\* C5 happens: each pruning removed a parameter that the other one kept.
C5_Witness ==
    /\ split.status = "ok"
    /\ ValidPartition(query, vertex_partition)
    /\ DOMAIN split.remainder.parameters \ DOMAIN split.next_page.parameters # {}
    /\ DOMAIN split.next_page.parameters \ DOMAIN split.remainder.parameters # {}

\* C6: the boundary parameter name of a split is __paged_param_N for the
\* smallest N >= 0 whose name is not a key of the original parameter mapping;
\* hence it is never a key of that mapping.
C6_SmallestFreeName ==
    split.status = "ok" =>
        /\ split.param_name \notin DOMAIN query.parameters
        /\ \E n \in 0..Cardinality(DOMAIN query.parameters) :
             /\ split.param_name = FormatName("__paged_param", n)
             /\ \A m \in 0..(n - 1) :
                    FormatName("__paged_param", m) \in DOMAIN query.parameters

\* C6 happens: the first names are taken and the search went past them.
C6_Witness ==
    /\ split.status = "ok"
    /\ FormatName("__paged_param", 0) \in DOMAIN query.parameters
    /\ split.param_name # FormatName("__paged_param", 0)

(***************************************************************************)
(* Properties of the page-count estimate (SpecEstimator).                  *)
(***************************************************************************)
\* ceil(cardinality / page_size), the cardinality being result_size / Resolution.
CeilOfQuotient(size, pages) ==
    (size + Resolution * pages - 1) \div (Resolution * pages)

\* C7: for every cardinality c >= 0 and page size p >= 1 the estimate is
\* max(1, ceil(c / p)).
C7_CeilingClampedAtOne ==
    (num_pages.status # "none" /\ result_size >= 0 /\ page_size >= 1) =>
        /\ num_pages.status = "ok"
        /\ num_pages.value = IF CeilOfQuotient(result_size, page_size) < 1 THEN 1
                             ELSE CeilOfQuotient(result_size, page_size)

\* C8: no page count on invalid input: a page size below 1 fails with
\* ValueError whatever the cardinality, a negative cardinality with a page
\* size of at least 1 fails with AssertionError.
C8_InvalidInputRaises ==
    num_pages.status # "none" =>
        /\ page_size < 1 => num_pages.status = "ValueError"
        /\ (page_size >= 1 /\ result_size < 0) => num_pages.status = "AssertionError"

\* C8 happens: both inputs are invalid and the page size decides.
C8_Witness ==
    /\ num_pages.status = "ValueError"
    /\ page_size < 1
    /\ result_size < 0

(***************************************************************************)
(* Properties of paginate_query_ast (SpecOrchestrator).                    *)
(***************************************************************************)
\* C9: with a page size below 1 paginate_query_ast fails with ValueError
\* before any collaborator is called and produces no page or remainder.
C9_PageSizeRejectedFirst ==
    (paginated.status # "none" /\ page_size < 1) =>
        /\ paginated.status = "ValueError"
        /\ calls = <<>>
        /\ paginated.page_and_remainder = None

\* C9 happens: a page size below 1 is rejected for an analysis that would
\* otherwise be split, and for one whose cardinality is negative.
C9_Witness ==
    /\ paginated.status = "ValueError"
    /\ page_size < 1
    /\ query_analysis.cardinality_estimate < 0
    /\ Len(pagination_plan[1].vertex_partitions) = 1

\* C10: when the estimated page count is at most 1 (the estimated cardinality
\* does not exceed the page size) there is no split: the page is the original
\* query with its parameters, the remainder and the advisories are empty and
\* the plan selector is not called.
C10_NoSplitForOnePage ==
    LET estimate == _estimate_number_of_pages("query", query_analysis.cardinality_estimate,
                                              page_size)
    IN  (/\ paginated.status # "none"
         /\ page_size >= 1
         /\ query_analysis.cardinality_estimate >= 0
         /\ \/ query_analysis.cardinality_estimate <= Resolution * page_size
            \/ estimate.value <= 1) =>
            /\ paginated.status = "ok"
            /\ paginated.page_and_remainder.one_page = query_analysis.ast_with_parameters
            /\ paginated.page_and_remainder.remainder = <<>>
            /\ paginated.advisories = <<>>
            /\ \A i \in 1..Len(calls) : calls[i] # "get_pagination_plan"

\* C10 happens: one page is estimated although the selector would have
\* answered with a partition and advisories.
C10_Witness ==
    /\ paginated.status = "ok"
    /\ query_analysis.cardinality_estimate = Resolution * page_size
    /\ page_size > 1
    /\ Len(pagination_plan[1].vertex_partitions) = 1
    /\ pagination_plan[2] # <<>>
    /\ generated_parameters # <<>>

\* The page count paginate_query_ast works with.
EstimatedPages ==
    _estimate_number_of_pages("query", query_analysis.cardinality_estimate, page_size)

\* paginate_query_ast was called with valid arguments and estimated more than
\* one page, so that the plan selector was asked.
SelectorAsked ==
    /\ paginated.status # "none"
    /\ page_size >= 1
    /\ query_analysis.cardinality_estimate >= 0
    /\ EstimatedPages.value > 1

\* C11: when more than one page is estimated and the plan has no partition
\* directive, or has one for which the generator yields no value, the result
\* is the original query as page, an empty remainder and exactly the
\* advisories of the selector, in order.
C11_NoSplitKeepsAdvisories ==
    (/\ SelectorAsked
     /\ \/ Len(pagination_plan[1].vertex_partitions) = 0
        \/ /\ Len(pagination_plan[1].vertex_partitions) = 1
           /\ generated_parameters = <<>>) =>
        /\ paginated.status = "ok"
        /\ paginated.page_and_remainder.one_page = query_analysis.ast_with_parameters
        /\ paginated.page_and_remainder.remainder = <<>>
        /\ paginated.advisories = pagination_plan[2]

\* C11 happens: the generator yields nothing for the one directive of the
\* plan, and the selector gave two advisories.
C11_Witness ==
    /\ SelectorAsked
    /\ paginated.status = "ok"
    /\ Len(pagination_plan[1].vertex_partitions) = 1
    /\ generated_parameters = <<>>
    /\ Len(pagination_plan[2]) = 2

\* C12: when more than one page is estimated, the plan has exactly one
\* partition directive and the generator yields a value, paginate_query_ast
\* runs the parameterizer on the query with that directive and returns
\* normally with the resulting page, the remainder as the one element of the
\* remainder tuple, and the advisories of the selector.
C12_SplitReturned ==
    (/\ SelectorAsked
     /\ Len(pagination_plan[1].vertex_partitions) = 1
     /\ generated_parameters # <<>>) =>
        LET parameterized == generate_parameterized_queries(
                query_analysis.schema_info, query_analysis.ast_with_parameters,
                pagination_plan[1].vertex_partitions[1])
        IN  /\ paginated.status = "ok"
            /\ calls[Len(calls)] = "generate_parameterized_queries"
            /\ paginated.page_and_remainder.one_page = parameterized.next_page
            /\ paginated.page_and_remainder.remainder = <<parameterized.remainder>>
            /\ paginated.advisories = pagination_plan[2]

\* C13: when the plan of the selector holds more than one partition
\* directive, paginate_query_ast fails with NotImplementedError and returns no
\* PageAndRemainder; the parameterizer is not run on any of the directives.
C13_SeveralPartitionsRejected ==
    (SelectorAsked /\ Len(pagination_plan[1].vertex_partitions) > 1) =>
        /\ paginated.status = "NotImplementedError"
        /\ paginated.page_and_remainder = None
        /\ \A i \in 1..Len(calls) : calls[i] # "generate_parameterized_queries"

\* C13 happens: a plan of two directives is rejected although the generator
\* would have yielded a boundary.
C13_Witness ==
    /\ SelectorAsked
    /\ paginated.status = "NotImplementedError"
    /\ Len(pagination_plan[1].vertex_partitions) = 2
    /\ generated_parameters # <<>>

\* C14: every PageAndRemainder that paginate_query_ast returns holds the query
\* passed in as whole_query and the requested page size, has a remainder of at
\* most one element, and has the original query as page whenever the
\* remainder is empty.
C14_PageAndRemainderShape ==
    paginated.status = "ok" =>
        /\ paginated.page_and_remainder.whole_query = query_analysis.ast_with_parameters
        /\ paginated.page_and_remainder.page_size = page_size
        /\ Len(paginated.page_and_remainder.remainder) <= 1
        /\ paginated.page_and_remainder.remainder = <<>> =>
               paginated.page_and_remainder.one_page = query_analysis.ast_with_parameters

\* C14 happens: a PageAndRemainder is returned for a page size above 1 after
\* the selector and the generator were asked.
C14_Witness ==
    /\ paginated.status = "ok"
    /\ page_size > 1
    /\ calls = <<"_estimate_number_of_pages", "get_pagination_plan",
                 "generate_parameters_for_vertex_partition">>

(***************************************************************************)
(* Properties of the rewritten AST (SpecParameterizer).                    *)
(***************************************************************************)
\* The selections of the vertex Animal of a query.
AnimalSelections(ast_with_parameters) ==
    VertexAt(ast_with_parameters.query_ast.definitions[1], <<"Animal">>).selection_set[1]

\* Whether the page of the split lists, in Animal, a selection of uuid with
\* the new filter as its only directive and no selection set, followed by the
\* selections Animal had.
UuidPrependedToAnimal ==
    LET before == AnimalSelections(query)
        after == AnimalSelections(split.next_page)
    IN  /\ Len(after) = Len(before) + 1
        /\ after[1].kind = "FieldNode"
        /\ after[1].name = "uuid"
        /\ after[1].selection_set = None
        /\ Len(after[1].directives) = 1
        /\ IsFilter(after[1].directives[1], "<", split.param_name)
        /\ \A i \in 1..Len(before) : after[i + 1] = before[i]

\* The split was made on uuid for a query whose Animal does not select uuid.
AnimalLacksUuid ==
    /\ split.status = "ok"
    /\ vertex_partition.pagination_field = "uuid"
    /\ \A i \in 1..Len(AnimalSelections(query)) : AnimalSelections(query)[i].name # "uuid"

\* C17 as stated: with the path (), the page gets the new selection of uuid
\* as the first selection of Animal, before Animal's selections.
C17_PrependedForEmptyPath ==
    (AnimalLacksUuid /\ vertex_partition.query_path = <<>>) => UuidPrependedToAnimal

\* C17, amended: for a query whose vertex Animal does not select uuid, a split
\* with the path ("Animal",) and the field uuid gives a page in which a new
\* selection of uuid with only the new "<" filter is the first selection of
\* Animal, followed by Animal's selections unchanged and in their order.
C17_PrependedForAnimalPath ==
    (AnimalLacksUuid /\ vertex_partition.query_path = <<"Animal">>) => UuidPrependedToAnimal

\* C17 happens: Animal selects name and a child vertex but not uuid.
C17_Witness ==
    /\ AnimalLacksUuid
    /\ vertex_partition.query_path = <<"Animal">>
    /\ Len(AnimalSelections(query)) = 2
    /\ UuidPrependedToAnimal

\* Whether a directive is a filter with the comparator op_name.
IsFilterWith(directive, op_name) ==
    directive.name = "filter" /\ directive.arguments[1].value = op_name

\* Whether the selections of the pagination field in a rewritten query carry
\* the directives of the original ones without the filters of the comparator
\* op_name and with the new filter last, and removed lists the parameters of
\* those filters.
PrunedAndAppended(rewritten, op_name, removed) ==
    LET before == FieldSelections(query, vertex_partition)
        after == FieldSelections(rewritten, vertex_partition)
        gone(i) == SelectSeq(before[i].directives, LAMBDA d : IsFilterWith(d, op_name))
        kept(i) == SelectSeq(before[i].directives, LAMBDA d : ~IsFilterWith(d, op_name))
    IN  /\ Len(after) = Len(before)
        /\ \A i \in 1..Len(before) :
             /\ Len(after[i].directives) = Len(kept(i)) + 1
             /\ \A k \in 1..Len(kept(i)) : after[i].directives[k] = kept(i)[k]
             /\ IsFilter(after[i].directives[Len(kept(i)) + 1], op_name, split.param_name)
        /\ removed = Concat([i \in 1..Len(before) |->
                         [k \in 1..Len(gone(i)) |-> gone(i)[k].arguments[2].value[1][2]]])

\* C18: when the target vertex selects the pagination field, the rewritten
\* selection has the original directives without the filters of the inserted
\* comparator, the others in their order, and the new filter last; the
\* removed parameters recorded are those of the removed filters.
C18_SameComparatorReplaced ==
    (split.status = "ok" /\ Len(FieldSelections(query, vertex_partition)) >= 1) =>
        /\ PrunedAndAppended(split.next_page, "<",
                             RemovedParameters(query, vertex_partition, "<"))
        /\ PrunedAndAppended(split.remainder, ">=",
                             RemovedParameters(query, vertex_partition, ">="))

\* C18 happens: uuid carries an output and two "<" filters; the page keeps
\* the output before the new filter and records both parameters.
C18_Witness ==
    /\ split.status = "ok"
    /\ vertex_partition.query_path = <<"Animal">>
    /\ vertex_partition.pagination_field = "uuid"
    /\ Len(FieldSelections(query, vertex_partition)) = 1
    /\ Len(FieldSelections(query, vertex_partition)[1].directives) = 3
    /\ Len(FieldSelections(split.next_page, vertex_partition)[1].directives) = 2
    /\ RemovedParameters(query, vertex_partition, "<") = <<"hi", "lo">>
    /\ Len(FieldSelections(split.remainder, vertex_partition)[1].directives) = 4

RECURSIVE OnlyPathRewritten(_, _, _, _)
\* Whether the node after differs from the node before only along the path
\* and in the selection of the field at the path's end: the nodes on the path
\* keep kind, name and directives, and every other selection is the same
\* value at the same place among its siblings.
OnlyPathRewritten(before, after, path, field) ==
    /\ after.kind = before.kind
    /\ after.name = before.name
    /\ after.directives = before.directives
    /\ LET old == before.selection_set[1]
           new == after.selection_set[1]
           step == IF path = <<>> THEN field ELSE path[1]
           found == \E i \in 1..Len(old) : old[i].name = step
           shift == IF found THEN 0 ELSE 1
       IN  /\ Len(new) = Len(old) + shift
           /\ \A i \in 1..Len(old) :
                IF old[i].name # step THEN new[i + shift] = old[i]
                ELSE IF path = <<>> THEN new[i].name = field
                ELSE OnlyPathRewritten(old[i], new[i], Tail(path), field)

\* C19: page and remainder differ from the original query only in the nodes
\* on the path to the target vertex and in the selection of the pagination
\* field; every other selection is the same and at the same place among its
\* siblings.
C19_SiblingsUntouched ==
    split.status = "ok" =>
        /\ OnlyPathRewritten(query.query_ast.definitions[1],
                             split.next_page.query_ast.definitions[1],
                             vertex_partition.query_path,
                             vertex_partition.pagination_field)
        /\ OnlyPathRewritten(query.query_ast.definitions[1],
                             split.remainder.query_ast.definitions[1],
                             vertex_partition.query_path,
                             vertex_partition.pagination_field)

\* C19 happens: the split is made in the child vertex of Animal while Animal
\* selects name and a filtered uuid beside it.
C19_Witness ==
    /\ split.status = "ok"
    /\ vertex_partition.query_path = <<"Animal", "out_Animal_ParentOf">>
    /\ vertex_partition.pagination_field = "uuid"
    /\ Len(AnimalSelections(query)) = 3
    /\ AnimalSelections(split.next_page)[1] = AnimalSelections(query)[1]
    /\ AnimalSelections(split.next_page)[2] = AnimalSelections(query)[2]
    /\ AnimalSelections(split.next_page)[3] # AnimalSelections(query)[3]

RECURSIVE SegmentMissing(_, _)
\* Whether some segment of the path matches no selection at its level below
\* the node: the node has no selections to match the next segment, or none
\* of them has its name, or the rest of the path is missing below one that has.
SegmentMissing(node, path) ==
    /\ path # <<>>
    /\ \/ node.selection_set = None
       \/ LET selections == node.selection_set[1]
              hits == {i \in 1..Len(selections) : selections[i].name = path[1]}
          IN  hits = {} \/ \E i \in hits : SegmentMissing(selections[i], Tail(path))

\* C20: when a segment of the partition path matches no selection at its
\* level of the query, the split fails with AssertionError and gives neither
\* a page nor a remainder.
C20_MissingSegmentIsFatal ==
    (/\ split.status # "none"
     /\ SegmentMissing(query.query_ast.definitions[1], vertex_partition.query_path)) =>
        /\ split.status = "AssertionError"
        /\ split.next_page = None
        /\ split.remainder = None

\* C20 happens: Animal is found, but it has no selection for the second
\* segment of the path, and the split fails.
C20_Witness ==
    /\ split.status = "AssertionError"
    /\ vertex_partition.query_path = <<"Animal", "out_Animal_LivesIn">>
    /\ Len(AnimalSelections(query)) = 3

(***************************************************************************)
(* Properties of the parameter generator (SpecGenerator).                  *)
(***************************************************************************)
\* The sample 0, 1, ..., 100.
IdentitySample == [i \in 1..SampleSize |-> i - 1]

\* C16: for a sorted sample q[0..100] and a partition count n >= 1 the
\* generator yields n - 1 boundaries, the k-th being q[floor(100 k / n) + 1]
\* with that index within 0..100; for the sample 0..100 and n = 4 the
\* boundaries are 26, 51, 76.
C16_QuantileBoundaries ==
    boundaries.status = "ok" =>
        LET n == vertex_partition.number_of_splits
        IN  /\ Len(boundaries.values) = n - 1
            /\ \A k \in 1..(n - 1) :
                 /\ (100 * k) \div n + 1 \in 0..100
                 /\ boundaries.values[k] = field_quantiles[((100 * k) \div n + 1) + 1]
            /\ (field_quantiles = IdentitySample /\ n = 4)
                   => boundaries.values = <<26, 51, 76>>

\* C16 happens: the sample 0..100 is cut in four.
C16_Witness ==
    /\ boundaries.status = "ok"
    /\ field_quantiles = IdentitySample
    /\ vertex_partition.number_of_splits = 4
    /\ boundaries.values = <<26, 51, 76>>

(***************************************************************************)
(* Properties of the rewrite on the heap (SpecHeap).                       *)
(***************************************************************************)
\* The split on the heap gives the queries that the split on values gives.
HeapAgreesWithValues ==
    heap_split.status # "none" =>
        LET by_value == generate_parameterized_queries("schema_info", query, vertex_partition)
        IN  /\ heap_split.status = by_value.status
            /\ heap_split.param_name = by_value.param_name
            /\ heap_split.status = "ok" =>
                 /\ LoadQuery(heap, heap_split.next_page) = by_value.next_page
                 /\ LoadQuery(heap, heap_split.remainder) = by_value.remainder

\* C15: a rewrite does not change its input: after
\* generate_parameterized_queries returned or failed, every object the
\* original query consisted of (node, selection set, selection list,
\* directive list, parameter mapping) is as it was, and the handle of the
\* original query still stands for the original query.
C15_InputNotMutated ==
    heap_split.status # "none" =>
        /\ Len(heap) >= Len(StoreQuery(query).heap)
        /\ \A id \in 1..Len(StoreQuery(query).heap) : heap[id] = StoreQuery(query).heap[id]
        /\ LoadQuery(heap, heap_query) = query

\* C15 happens: a split below Animal returned a page of new objects that
\* differs from the original query.
C15_Witness ==
    /\ heap_split.status = "ok"
    /\ vertex_partition.query_path = <<"Animal", "out_Animal_ParentOf">>
    /\ Len(heap) > Len(StoreQuery(query).heap)
    /\ heap_split.next_page.query_ast > Len(StoreQuery(query).heap)
    /\ LoadQuery(heap, heap_split.next_page) # query
    /\ LoadQuery(heap, heap_query) = query

(***************************************************************************)
(* Properties of repeated splits (SpecDrain).                              *)
(***************************************************************************)
\* The rows a query matches with the parameters it carries.
OwnRows(ast_with_parameters) == Rows(ast_with_parameters, ast_with_parameters.parameters)

\* Every page kept and the query held carry a value for every parameter
\* their filters refer to: the caller bound every boundary.
AllBound ==
    /\ Referenced(to_split) \subseteq DOMAIN to_split.parameters
    /\ \A i \in 1..Len(drained_pages) :
         Referenced(drained_pages[i]) \subseteq DOMAIN drained_pages[i].parameters

\* C21: after any number of splits of the current remainder with the same
\* path and field and any boundary values, the pages produced so far are
\* pairwise disjoint, and their rows together with the rows of the current
\* remainder are the rows of the original query.
C21_DrainingPartitions ==
    (/\ split.status = "ok"
     /\ ValidPartition(query, vertex_partition)
     /\ Referenced(query) \subseteq DOMAIN query.parameters
     /\ AllBound) =>
        /\ \A i, j \in 1..Len(drained_pages) :
             i < j => OwnRows(drained_pages[i]) \cap OwnRows(drained_pages[j]) = {}
        /\ UNION {OwnRows(drained_pages[i]) : i \in 1..Len(drained_pages)}
               \cup OwnRows(to_split) = OwnRows(query)

\* C21 for a query that has no filter on the pagination field: the same
\* statement, which then does not rest on the filters of the original query.
C21_DrainingUnfiltered ==
    (/\ ValidPartition(query, vertex_partition)
     /\ FilteredWith("<") \cup FilteredWith(">=") = {}) => C21_DrainingPartitions

\* C22: when a split is applied to a query that an earlier split produced,
\* the boundary parameter name it generates is not referred to by any filter
\* of the query being split.
C22_FreshAmongFilters ==
    (split.status = "ok" /\ Len(drained_pages) >= 2
        /\ ValidPartition(query, vertex_partition)) =>
        split.param_name \notin Referenced(split_query)

\* C22 under the assumption that the caller bound every boundary before the
\* next split: the name is then a new one.
C22_FreshWhenBound ==
    (split.status = "ok" /\ Len(drained_pages) >= 2
        /\ ValidPartition(query, vertex_partition)
        /\ Referenced(split_query) \subseteq DOMAIN split_query.parameters) =>
        split.param_name \notin Referenced(split_query)

====
